---- MODULE Spec2Model ----
(***************************************************************************)
(* The adaptive retrieval / generation loop of the SupportVector Training  *)
(* Coach (backend/graph.py), together with its two callers                 *)
(* (backend/main.py chat and test_agent.py test_query).                    *)
(*                                                                         *)
(* The GraphState dict is the function `state` (a key is present iff it is *)
(* in DOMAIN state).  The `thoughts` list is one Python list object: the   *)
(* caller's inputs["thoughts"] and state["thoughts"] are the same object   *)
(* and every step appends to it in place, so its contents are kept in the  *)
(* single variable `thoughts`.  The Passage Store and the Judgment Service *)
(* are nondeterministic: every answer they can give is drawn with \E.      *)
(***************************************************************************)
EXTENDS Naturals, Sequences, FiniteSets

VARIABLES
    pc,         \* next step of the running graph, "idle", "END", "returned" or "FAILED"
    entry,      \* what started the run: "none", "chat", "test" (the stream of
                \* test_query) or "test_invoke" (its later invoke)
    inputs,     \* the caller's input dict (without its thoughts list)
    state,      \* the GraphState dict of the running graph
    thoughts,   \* contents of the list object behind inputs/state["thoughts"]
    response,   \* the ChatResponse returned by chat, empty until it returns
    calls,      \* history: external calls issued by the last executed step
    trace       \* history: steps executed during the current run

vars == <<pc, entry, inputs, state, thoughts, response, calls, trace>>

(***************************** bounds and inputs ***************************)

MaxDocs == 2

DocIds == {"d1", "d2"}

UserInputs == {"", "q1"}

Rewrites == {"", "q1", "r1"}

Answers == {"a1", "a2"}

YesNo == {"yes", "no"}

DocLists == UNION {[1..n -> DocIds] : n \in 0..MaxDocs}

(***************************** Python helpers ******************************)

EmptyDict == [k \in {} |-> ""]

\* state.get(k, d)
Get(s, k, d) == IF k \in DOMAIN s THEN s[k] ELSE d

\* state.get(k) or alt, for a string-valued key
GetOr(s, k, alt) == IF k \in DOMAIN s /\ s[k] # "" THEN s[k] ELSE alt

\* LangGraph channel update: the keys a node returns overwrite the state
Update(s, u) ==
    [k \in DOMAIN s \cup DOMAIN u |-> IF k \in DOMAIN u THEN u[k] ELSE s[k]]

\* list.append on the thoughts list
AppendThought_prepend(th, t) == <<t>> \o th

AppendThought(th, t) == Append(th, t)

IsPrefix(s, t) == Len(s) <= Len(t) /\ SubSeq(t, 1, Len(s)) = s

Last(s) == s[Len(s)]

Contains(s, x) == \E i \in 1..Len(s) : s[i] = x

(***************************** thoughts entries ****************************)

Thought(text) == [text |-> text, q |-> "", n |-> 0]

ThSearching == Thought("Searching course materials for relevant context...")

ThGrading == Thought("Grading retrieved segments for relevance...")

ThNoDocs(q) ==
    [text |-> "No documents found mentioning specific constraints of: '{orig_q}'",
     q |-> q, n |-> 0]

ThFound(n, q) ==
    [text |-> "Found {len(filtered_docs)} relevant segments for '{orig_q}'.",
     q |-> q, n |-> n]

ThSynthesizing == Thought("Synthesizing answer based strictly on course material...")

ThOptimizing == Thought("Optimizing search query for better results...")

ThNoHallucination ==
    Thought("No hallucinations detected. Checking if specific question is answered...")

ThSuccess == Thought("Success! Final answer verified.")

ThFailedConstraint(q) ==
    [text |-> "Answer failed to address specific constraint: '{orig_q}'",
     q |-> q, n |-> 0]

ThMaxRetriesRefusal == Thought("Max retries reached. Returning direct refusal.")

ThHallucination == Thought("Detected potential hallucination. Retrying generation...")

ThMaxRetriesBestEffort ==
    Thought("Max retries reached despite potential hallucination. Returning best effort.")

(***************************** history records *****************************)

Call(fn, by, hasq, q, res) ==
    [fn |-> fn, by |-> by, hasq |-> hasq, q |-> q, res |-> res]

\* retrieve: documents = retriever.invoke(question)
SearchCall(q, docs) ==
    [fn |-> "search", by |-> "retrieve", hasq |-> TRUE, q |-> q, res |-> "",
     docs |-> docs]

Step(node, s, route, hall) ==
    [node |-> node,
     rc |-> Get(s, "retry_count", 0),
     ndocs |-> Len(Get(s, "documents", <<>>)),
     gen |-> Get(s, "generation", <<>>),
     route |-> route,
     hall |-> hall]

(***************************** pure pieces of the nodes ********************)

\* retrieve: orig_q = state.get("original_question") or question
RetrieveOrigQ(s) == GetOr(s, "original_question", s.question)

\* grade_documents, verifier: orig_q = state.get("original_question", question)
OrigQ(s) == Get(s, "original_question", s.question)

\* grade_documents: the loop that keeps the documents scored "yes"
RECURSIVE FilterDocs_reversed(_, _)
FilterDocs_reversed(docs, scores) ==
    IF docs = <<>> THEN <<>>
    ELSE LET n == Len(docs)
             rest == FilterDocs_reversed(SubSeq(docs, 1, n - 1), scores)
         IN  IF scores[n] = "yes" THEN <<docs[n]>> \o rest ELSE rest

RECURSIVE FilterDocs(_, _)
FilterDocs(docs, scores) ==
    IF docs = <<>> THEN <<>>
    ELSE LET n == Len(docs)
             rest == FilterDocs(SubSeq(docs, 1, n - 1), scores)
         IN  IF scores[n] = "yes" THEN Append(rest, docs[n]) ELSE rest

\* generate: user_intent = state.get("original_question", question)
UserIntent_question(s) == s.question

UserIntent(s) == Get(s, "original_question", s.question)

CoverageBoundary == "Weeks 1 through 4"

\* generate: the f-string of the refusal, as its literal and formatted pieces
RefusalText(user_intent) ==
    << "I'm sorry, I could not find any specific information about '",
       user_intent,
       "' in the course materials. Based on my database, the materials primarily cover LLM architecture, Semantic Search, and Vector Embeddings for ",
       CoverageBoundary,
       ". I do not have info for other weeks." >>

\* generate, transform_query: retry_count = state.get("retry_count", 0) + 1
NextRetry_twice(s) == Get(s, "retry_count", 0) + 2

NextRetry(s) == Get(s, "retry_count", 0) + 1

\* decide_to_generate
decide_to_generate_gt(s) ==
    IF Get(s, "documents", <<>>) = <<>>
    THEN IF Get(s, "retry_count", 0) > 2 THEN "generate" ELSE "transform_query"
    ELSE "generate"

decide_to_generate_early(s) ==
    IF Get(s, "documents", <<>>) = <<>>
    THEN IF Get(s, "retry_count", 0) >= 1 THEN "generate" ELSE "transform_query"
    ELSE "generate"

decide_to_generate(s) ==
    IF Get(s, "documents", <<>>) = <<>>
    THEN IF Get(s, "retry_count", 0) >= 2 THEN "generate" ELSE "transform_query"
    ELSE "generate"

\* verifier: if state.get("retry_count", 0) > 2
MaxRetriesReached_ge(s) == Get(s, "retry_count", 0) >= 2

MaxRetriesReached_late(s) == Get(s, "retry_count", 0) > 3

MaxRetriesReached(s) == Get(s, "retry_count", 0) > 2

\* workflow: conditional edge maps
AfterGradeDocuments_end(route) ==
    IF route = "transform_query" THEN "transform_query" ELSE "END"

AfterGradeDocuments(route) ==
    IF route = "transform_query" THEN "transform_query" ELSE "generate"

AfterGenerate_reretrieve(route) ==
    CASE route = "not grounded" -> "retrieve"
      [] route = "not useful" -> "transform_query"
      [] route = "useful" -> "END"

AfterGenerate(route) ==
    CASE route = "not grounded" -> "generate"
      [] route = "not useful" -> "transform_query"
      [] route = "useful" -> "END"

Verifier == "grade_generation_v_documents_and_question"

(***************************** initial state *******************************)

Init ==
    /\ pc = "idle"
    /\ entry = "none"
    /\ inputs = EmptyDict
    /\ state = EmptyDict
    /\ thoughts = <<>>
    /\ response = EmptyDict
    /\ calls = <<>>
    /\ trace = <<>>

(***************************** callers *************************************)

\* main.py: chat builds the inputs and invokes the graph
chat ==
    /\ \/ pc = "idle"
       \/ pc \in {"returned", "FAILED"} /\ entry = "chat"
    /\ \E message \in UserInputs :
         inputs' = [question |-> message, original_question |-> message,
                    retry_count |-> 0]
    /\ thoughts' = <<>>
    /\ response' = EmptyDict
    /\ state' = inputs'
    /\ entry' = "chat"
    /\ calls' = <<>>
    /\ trace' = <<>>
    /\ pc' = "retrieve"

\* main.py: chat builds the response from the result of the graph; the
\* server then waits for the next request
chat_return ==
    /\ pc = "END"
    /\ entry = "chat"
    /\ LET result == state
           sources == IF "documents" \in DOMAIN result
                      THEN result.documents ELSE <<>>
       IN  response' = [answer |-> result.generation,
                        thoughts |-> thoughts,
                        sources |-> sources]
    /\ pc' = "returned"
    /\ UNCHANGED <<entry, inputs, state, thoughts, calls, trace>>

\* test_agent.py: test_query builds the inputs and streams the graph
test_query_stream ==
    /\ pc = "idle"
    /\ \E question \in UserInputs :
         inputs' = [question |-> question, retry_count |-> 0]
    /\ thoughts' = <<>>
    /\ response' = EmptyDict
    /\ state' = inputs'
    /\ entry' = "test"
    /\ calls' = <<>>
    /\ trace' = <<>>
    /\ pc' = "retrieve"

\* test_agent.py: after the stream, test_query invokes the graph with the
\* same inputs dict; its thoughts list is the object the first run appended to
test_query_invoke ==
    /\ pc = "END"
    /\ entry = "test"
    /\ state' = inputs
    /\ entry' = "test_invoke"
    /\ calls' = <<>>
    /\ trace' = <<>>
    /\ pc' = "retrieve"
    /\ UNCHANGED <<inputs, thoughts, response>>

(***************************** nodes ***************************************)

retrieve ==
    /\ pc = "retrieve"
    /\ LET question == state.question
           orig_q == RetrieveOrigQ(state)
       IN  \E documents \in DocLists :
             /\ thoughts' = AppendThought(thoughts, ThSearching)
             /\ calls' = <<SearchCall(question, documents)>>
             /\ state' = Update(state, [documents |-> documents,
                                        question |-> question,
                                        original_question |-> orig_q])
    /\ trace' = Append(trace, Step("retrieve", state', "", ""))
    /\ pc' = "grade_documents"
    /\ UNCHANGED <<entry, inputs, response>>

grade_documents ==
    /\ pc = "grade_documents"
    /\ LET question == state.question
           documents == state.documents
           orig_q == OrigQ(state)
       IN  \E scores \in [1..Len(documents) -> YesNo] :
             LET filtered_docs == FilterDocs(documents, scores)
                 graded == [i \in 1..Len(documents) |->
                              Call("classify", "grade_documents", TRUE, orig_q,
                                   scores[i])]
                 summary == IF filtered_docs = <<>>
                            THEN ThNoDocs(orig_q)
                            ELSE ThFound(Len(filtered_docs), orig_q)
             IN  /\ thoughts' = AppendThought(AppendThought(thoughts, ThGrading),
                                              summary)
                 /\ calls' = graded
                 /\ state' = Update(state, [documents |-> filtered_docs])
    /\ trace' = Append(trace, Step("grade_documents", state', "", ""))
    /\ pc' = "decide_to_generate"
    /\ UNCHANGED <<entry, inputs, response>>

decide ==
    /\ pc = "decide_to_generate"
    /\ LET route == decide_to_generate(state)
       IN  /\ trace' = Append(trace, Step("decide_to_generate", state, route, ""))
           /\ pc' = AfterGradeDocuments(route)
    /\ calls' = <<>>
    /\ UNCHANGED <<entry, inputs, response, state, thoughts>>

generate ==
    /\ pc = "generate"
    /\ LET question == state.question
           documents == state.documents
           retry_count == NextRetry(state)
       IN  \/ /\ documents = <<>>
              /\ state' = Update(state, [generation |-> RefusalText(UserIntent(state)),
                                         retry_count |-> retry_count])
              /\ calls' = <<>>
           \/ /\ documents # <<>>
              /\ \E answer \in Answers :
                   /\ state' = Update(state, [generation |-> <<answer>>,
                                              retry_count |-> retry_count])
                   /\ calls' = <<Call("complete", "generate", TRUE,
                                           question, answer)>>
    /\ thoughts' = AppendThought(thoughts, ThSynthesizing)
    /\ trace' = Append(trace, Step("generate", state', "", ""))
    /\ pc' = Verifier
    /\ UNCHANGED <<entry, inputs, response>>

transform_query ==
    /\ pc = "transform_query"
    /\ LET question == state.question
           retry_count == NextRetry(state)
       IN  \E better_question \in Rewrites :
             /\ calls' = <<Call("complete", "transform_query", TRUE,
                                     question, better_question)>>
             /\ state' = Update(state, [question |-> better_question,
                                        retry_count |-> retry_count])
    /\ thoughts' = AppendThought(thoughts, ThOptimizing)
    /\ trace' = Append(trace, Step("transform_query", state', "", ""))
    /\ pc' = "retrieve"
    /\ UNCHANGED <<entry, inputs, response>>

\* the conditional edge after generate; returns the route and appends to the
\* thoughts list in place
grade_generation_v_documents_and_question ==
    /\ pc = Verifier
    /\ LET orig_q == OrigQ(state)
           hall(res) == Call("classify", "hall_chain", FALSE, "", res)
           answer(res) == Call("classify", "answer_chain", TRUE, orig_q, res)
           finish(route, new_thoughts, new_calls) ==
               /\ thoughts' = new_thoughts
               /\ calls' = new_calls
               /\ trace' = Append(trace, Step(Verifier, state, route,
                                               new_calls[1].res))
               /\ pc' = AfterGenerate(route)
           t1 == AppendThought(thoughts, ThNoHallucination)
           t2 == AppendThought(t1, ThFailedConstraint(orig_q))
           h1 == AppendThought(thoughts, ThHallucination)
       IN  \/ finish("useful", AppendThought(t1, ThSuccess),
                     <<hall("yes"), answer("yes")>>)
           \/ /\ MaxRetriesReached(state)
              /\ finish("useful", AppendThought(t2, ThMaxRetriesRefusal),
                        <<hall("yes"), answer("no")>>)
           \/ /\ ~MaxRetriesReached(state)
              /\ finish("not useful", t2, <<hall("yes"), answer("no")>>)
           \/ /\ MaxRetriesReached(state)
              /\ finish("useful", AppendThought(h1, ThMaxRetriesBestEffort),
                        <<hall("no")>>)
           \/ /\ ~MaxRetriesReached(state)
              /\ finish("not grounded", h1, <<hall("no")>>)
    /\ UNCHANGED <<entry, inputs, response, state>>

(***************************** failing external calls **********************)

\* No node wraps its external calls in try/except and workflow.add_node
\* gives no retry policy: a raising call ends the invocation with the
\* exception, the node's return (and so its state update) is never reached.
OnError_retry(node) == node

OnError(node) == "FAILED"

Failed(fn, by, hasq, q) == Call(fn, by, hasq, q, "error")

\* a step raised: only the in-place appends made before the call remain
Raise(new_thoughts, new_calls) ==
    /\ thoughts' = new_thoughts
    /\ calls' = new_calls
    /\ pc' = OnError(pc)
    /\ UNCHANGED <<entry, inputs, response, state, trace>>

retrieve_fails ==
    /\ pc = "retrieve"
    /\ Raise(AppendThought(thoughts, ThSearching),
             <<Failed("search", "retrieve", TRUE, state.question)>>)

grade_documents_fails ==
    /\ pc = "grade_documents"
    /\ LET documents == state.documents
           orig_q == OrigQ(state)
       IN  \E k \in 1..Len(documents) :
             \E scores \in [1..(k - 1) -> YesNo] :
               Raise(AppendThought(thoughts, ThGrading),
                     [i \in 1..k |->
                        IF i < k
                        THEN Call("classify", "grade_documents", TRUE, orig_q,
                                  scores[i])
                        ELSE Failed("classify", "grade_documents", TRUE, orig_q)])

generate_fails ==
    /\ pc = "generate"
    /\ state.documents # <<>>
    /\ Raise(AppendThought(thoughts, ThSynthesizing),
             <<Failed("complete", "generate", TRUE, state.question)>>)

transform_query_fails ==
    /\ pc = "transform_query"
    /\ Raise(AppendThought(thoughts, ThOptimizing),
             <<Failed("complete", "transform_query", TRUE, state.question)>>)

grade_generation_fails ==
    /\ pc = Verifier
    /\ \/ Raise(thoughts, <<Failed("classify", "hall_chain", FALSE, "")>>)
       \/ Raise(AppendThought(thoughts, ThNoHallucination),
                <<Call("classify", "hall_chain", FALSE, "", "yes"),
                  Failed("classify", "answer_chain", TRUE, OrigQ(state))>>)

(***************************** specification *******************************)

Next ==
    \/ chat
    \/ chat_return
    \/ test_query_stream
    \/ retrieve
    \/ grade_documents
    \/ decide
    \/ generate
    \/ transform_query
    \/ grade_generation_v_documents_and_question

Spec == Init /\ [][Next]_vars

\* once invoked, the graph runs every step to completion (each external
\* call returns)
FairSpec == Spec /\ WF_vars(Next)

NextFail ==
    \/ Next
    \/ retrieve_fails
    \/ grade_documents_fails
    \/ generate_fails
    \/ transform_query_fails
    \/ grade_generation_fails

\* the loop when the Passage Store and the Judgment Service may raise
FailSpec == Init /\ [][NextFail]_vars

\* test_query run to its end, against services that answer from small sets
TestDocLists == {<<>>, <<"d1">>}

TestEnv ==
    /\ inputs.question = "q1"
    /\ \A i \in 1..Len(calls) :
          /\ calls[i].fn = "search" => calls[i].docs \in TestDocLists
          /\ calls[i].fn = "complete" => calls[i].res \in {"a1", "r1"}

NextTest ==
    \/ test_query_stream /\ TestEnv'
    \/ test_query_invoke
    \/ retrieve /\ TestEnv'
    \/ grade_documents
    \/ decide
    \/ generate /\ TestEnv'
    \/ transform_query /\ TestEnv'
    \/ grade_generation_v_documents_and_question

TestSpec == Init /\ [][NextTest]_vars

(***************************** history read-outs ***************************)

Count(node) == Cardinality({i \in 1..Len(trace) : trace[i].node = node})

Running == pc \notin {"idle", "END", "returned", "FAILED"}

GradeSteps == {i \in 1..Len(trace) : trace[i].node = "grade_documents"}

\* the first k FILTER executions of the run all kept no document
FirstRejected(k) ==
    /\ Cardinality(GradeSteps) >= k
    /\ \A i \in GradeSteps :
         Cardinality({j \in GradeSteps : j <= i}) <= k => trace[i].ndocs = 0

\* the first FILTER kept a document and every grounding check so far said no
ScenarioD ==
    /\ GradeSteps # {}
    /\ \A i \in GradeSteps : (\A j \in GradeSteps : i <= j) => trace[i].ndocs > 0
    /\ \A i \in 1..Len(trace) : trace[i].node = Verifier => trace[i].hall = "no"

(***************************** claims **************************************)

\* C1: bounded termination.  Whatever the Passage Store and the Judgment
\* Service answer, a run started with retry_count = 0 executes retrieve at
\* most 3 times and generate at most 3 times, and every started run reaches
\* END.
C1_BoundedTermination ==
    /\ [](Count("retrieve") <= 3 /\ Count("generate") <= 3)
    /\ (Running ~> (pc = "END"))

C1_Witness ==
    /\ pc = "END"
    /\ Count("generate") = 3
    /\ Count("retrieve") = 2

\* C2: once original_question is assigned it equals the user's initial input
\* in every later state, for every input string including the empty one.
C2_OriginalQuestionImmutable ==
    "original_question" \in DOMAIN state =>
        state.original_question = inputs.question

\* C3: retry_count equals the number of generate executions plus the number
\* of transform_query executions of the run; generate and transform_query
\* each add exactly 1; retrieve, grade_documents and the two decision edges
\* leave it unchanged.
C3_RetryMonotonic ==
    /\ [](Running => state.retry_count =
                        Count("generate") + Count("transform_query"))
    /\ [][/\ pc \in {"generate", "transform_query"} =>
                state'.retry_count = state.retry_count + 1
          /\ pc \in {"retrieve", "grade_documents", "decide_to_generate",
                     Verifier} =>
                state'.retry_count = state.retry_count]_vars

C3_Witness ==
    /\ pc = "END"
    /\ state.documents = <<>>
    /\ Count("generate") = 1
    /\ Count("transform_query") = 2
    /\ state.retry_count = 3

\* C4: across every transition of a request the thoughts sequence before
\* the transition is a prefix of the thoughts sequence after it.
C4_MonotonicTrace ==
    [][Running => IsPrefix(thoughts, thoughts')]_vars

C4_Witness ==
    /\ pc = "END"
    /\ Len(thoughts) >= 6
    /\ thoughts[1] = ThSearching
    /\ Last(thoughts) = ThMaxRetriesRefusal

\* C5: a generate execution that finds documents empty sets generation to
\* the fixed refusal, which contains original_question and the coverage
\* boundary 'Weeks 1 through 4', and issues no call to complete.
C5_EmptyEvidenceRefusal ==
    [][(pc = "generate" /\ state.documents = <<>>) =>
          /\ state'.generation = RefusalText(state.original_question)
          /\ Contains(state'.generation, state.original_question)
          /\ Contains(state'.generation, "Weeks 1 through 4")
          /\ \A i \in 1..Len(calls') : calls'[i].fn # "complete"]_vars

C5_Witness ==
    /\ pc = Verifier
    /\ state.documents = <<>>
    /\ state.question # state.original_question
    /\ state.generation = RefusalText(state.original_question)
    /\ calls = <<>>

\* C6: every classify call that takes a question (the per-document calls of
\* grade_documents and the answer-addresses-question call of the verifier)
\* receives the user's initial input.
C6_JudgedAgainstUserInput ==
    \A i \in 1..Len(calls) :
        (calls[i].fn = "classify" /\ calls[i].hasq) =>
            calls[i].q = inputs.question

\* C7: after grade_documents the next step is generate exactly when the
\* filtered documents are non-empty or retry_count >= 2, and transform_query
\* exactly when they are empty and retry_count < 2.
C7_FilterDecision ==
    [][pc = "decide_to_generate" =>
          LET empty == state.documents = <<>>
              r == state.retry_count
          IN  /\ (pc' = "generate") <=> (~empty \/ (empty /\ r >= 2))
              /\ (pc' = "transform_query") <=> (empty /\ r < 2)]_vars

C7_Witness ==
    /\ pc = "generate"
    /\ Last(trace).node = "decide_to_generate"
    /\ state.documents = <<>>
    /\ state.retry_count = 2

\* C8: the verifier, with r the retry_count after the synthesis: grounding
\* yes and relevance yes gives END; grounding no gives generate when r <= 2
\* and END when r > 2; grounding yes and relevance no gives transform_query
\* when r <= 2 and END when r > 2; the relevance call is made only if
\* grounding returned yes.
C8_VerifierDecision ==
    [][pc = Verifier =>
          LET r == state.retry_count
              grounded == calls'[1].res
              asked == Len(calls') = 2
          IN  /\ Len(calls') \in {1, 2}
              /\ calls'[1].by = "hall_chain"
              /\ asked <=> (grounded = "yes")
              /\ asked => calls'[2].by = "answer_chain"
              /\ (asked /\ calls'[2].res = "yes") => pc' = "END"
              /\ (asked /\ calls'[2].res = "no") =>
                    pc' = IF r <= 2 THEN "transform_query" ELSE "END"
              /\ (grounded = "no") =>
                    pc' = IF r <= 2 THEN "generate" ELSE "END"]_vars

C8_Witness ==
    /\ pc = "transform_query"
    /\ Last(trace).node = Verifier
    /\ state.retry_count = 2
    /\ Len(calls) = 2

\* C9 as stated: when the first FILTER keeps a document and every grounding
\* check says no, forced acceptance occurs at the fourth synthesis attempt,
\* with the best-effort entry in thoughts.
C9_ForcedAtFourthAttempt ==
    (pc = "END" /\ ScenarioD) =>
        /\ Count("generate") = 4
        /\ Contains(thoughts, ThMaxRetriesBestEffort)

\* C9 amended: when the first FILTER keeps a document and every grounding
\* check says no, synthesis is retried while retry_count <= 2 and forced
\* acceptance occurs at the third synthesis attempt (retry_count = 3), with
\* the best-effort entry as the last entry of thoughts.
C9_ForcedAtThirdAttempt ==
    ScenarioD =>
        /\ \A i \in 1..Len(trace) :
              trace[i].node = Verifier =>
                  trace[i].route = IF trace[i].rc <= 2 THEN "not grounded"
                                   ELSE "useful"
        /\ pc = "END" =>
              /\ Count("generate") = 3
              /\ Count("transform_query") = 0
              /\ state.retry_count = 3
              /\ Last(thoughts) = ThMaxRetriesBestEffort

C9_Witness ==
    /\ pc = "END"
    /\ ScenarioD
    /\ Count("generate") = 3

\* every retrieve of the run returned at least one document
RetrievedSome == \A i \in GradeSteps : trace[i - 1].ndocs > 0

\* the first generate of the run is about to execute
RefusalEntry == pc = "generate" /\ Count("generate") = 0

\* C10 as stated: when the filter rejects every document on the first two
\* retrieval cycles (each of which retrieved some), generate is entered with empty documents and
\* retry_count = 2 and the generation at END is the refusal.
C10_TwoRejectedCycles ==
    (FirstRejected(2) /\ RetrievedSome) =>
        /\ RefusalEntry => (state.documents = <<>> /\ state.retry_count = 2)
        /\ pc = "END" => state.generation = RefusalText(state.original_question)

\* C10 amended: when the filter rejects every document on the first three
\* retrieval cycles (the initial one and the one after each of the two
\* rewrites), generate is entered once, with empty documents and
\* retry_count = 2, and the generation at END is the refusal built from
\* original_question and the coverage range; original_question is the
\* user's input whenever that input is not empty.
C10_ThreeRejectedCycles ==
    FirstRejected(3) =>
        /\ Count("retrieve") = 3
        /\ RefusalEntry => (state.documents = <<>> /\ state.retry_count = 2)
        /\ pc = "END" =>
              /\ Count("generate") = 1
              /\ state.generation = RefusalText(state.original_question)
              /\ Contains(state.generation, "Weeks 1 through 4")
              /\ inputs.question # "" =>
                    state.original_question = inputs.question

C10_Witness ==
    /\ pc = "END"
    /\ FirstRejected(3)
    /\ RetrievedSome
    /\ inputs.question = "q1"
    /\ state.question = "r1"

\* the last step ended in a raising external call
Raised(cs) == cs # <<>> /\ Last(cs).res = "error"

\* C13: a failing Passage Store or Judgment Service call is fatal and not
\* retried: the step that issued it ends the request in the failed state
\* without changing retry_count or any other state key and without taking
\* a graph transition, and a failed request issues no further call (the
\* only step after it is the start of a new request).
C13_FailureIsFatal ==
    [][/\ (Running /\ Raised(calls')) =>
             /\ pc' = "FAILED"
             /\ state' = state
             /\ trace' = trace
       /\ (pc # "FAILED" /\ pc' = "FAILED") => Raised(calls')
       /\ pc = "FAILED" =>
             /\ pc' = "retrieve"
             /\ trace' = <<>>
             /\ calls' = <<>>
             /\ state'.retry_count = 0]_vars

C13_Witness ==
    /\ pc = "FAILED"
    /\ Raised(calls)
    /\ Last(calls).by = "generate"
    /\ state.retry_count = 2
    /\ Last(trace).node = "decide_to_generate"

(***************************** more history read-outs **********************)

Accepted == pc \in {"END", "returned"}

StepsOf(node) == {i \in 1..Len(trace) : trace[i].node = node}

\* the k-th execution of node in the run
Nth(node, k) ==
    CHOOSE i \in StepsOf(node) :
        Cardinality({j \in StepsOf(node) : j <= i}) = k

FirstFilterKept ==
    /\ GradeSteps # {}
    /\ trace[Nth("grade_documents", 1)].ndocs > 0

CountThought(ts) == Cardinality({i \in 1..Len(thoughts) : thoughts[i] \in ts})

\* the first FILTER kept a document and the grounding check said no, no, yes
ScenarioC ==
    /\ FirstFilterKept
    /\ Count(Verifier) >= 3
    /\ trace[Nth(Verifier, 1)].hall = "no"
    /\ trace[Nth(Verifier, 2)].hall = "no"
    /\ trace[Nth(Verifier, 3)].hall = "yes"

\* C11: Scenario C.  When the first FILTER keeps a document and grounding
\* says no after attempts 1 and 2 and yes after attempt 3, the run makes
\* exactly two generate self-loops, no transform_query and no second
\* retrieve, and is accepted with retry_count = 3 whatever the relevance
\* answer on attempt 3 is.
C11_ScenarioC ==
    ScenarioC =>
        /\ Accepted
        /\ Count(Verifier) = 3
        /\ Count("generate") = 3
        /\ Count("transform_query") = 0
        /\ Count("retrieve") = 1
        /\ trace[Nth(Verifier, 1)].route = "not grounded"
        /\ trace[Nth(Verifier, 2)].route = "not grounded"
        /\ trace[Nth(Verifier, 3)].route = "useful"
        /\ state.retry_count = 3

C11_Witness ==
    /\ pc = "END"
    /\ ScenarioC
    /\ Len(calls) = 2
    /\ calls[2].res = "no"

\* C12: at END generation is set, generate has executed and generation is
\* the output of its most recent execution, and thoughts holds an entry
\* for every executed step; chat returns that generation and those thoughts.
C12_AcceptHasGenerationAndTrace ==
    Accepted =>
        /\ "generation" \in DOMAIN state
        /\ Count("generate") >= 1
        /\ state.generation = trace[Nth("generate", Count("generate"))].gen
        /\ state.generation # <<>>
        /\ CountThought({ThSearching}) >= Count("retrieve")
        /\ CountThought({ThGrading}) >= Count("grade_documents")
        /\ CountThought({ThSynthesizing}) >= Count("generate")
        /\ CountThought({ThOptimizing}) >= Count("transform_query")
        /\ CountThought({ThNoHallucination, ThHallucination}) >= Count(Verifier)
        /\ Last(thoughts) \in {ThSuccess, ThMaxRetriesRefusal,
                               ThMaxRetriesBestEffort}
        /\ pc = "returned" =>
              /\ response.answer = state.generation
              /\ response.thoughts = thoughts

C12_Witness ==
    /\ pc = "returned"
    /\ state.documents = <<>>
    /\ Count("generate") = 2
    /\ Last(thoughts) = ThMaxRetriesBestEffort
    /\ response.answer = RefusalText(state.original_question)

\* C15: a generate executed with empty documents runs at retry_count >= 2,
\* produces the refusal, and the verifier after it always accepts; it is
\* the last generate of the run and no transform_query or retrieve follows.
C15_EmptyEvidenceTerminal ==
    \A i \in StepsOf("generate") :
        trace[i].ndocs = 0 =>
            /\ trace[i].rc > 2
            /\ trace[i].gen = RefusalText(state.original_question)
            /\ state.generation = trace[i].gen
            /\ i >= Len(trace) - 1
            /\ i = Len(trace) => pc = Verifier
            /\ i = Len(trace) - 1 =>
                  /\ trace[i + 1].node = Verifier
                  /\ trace[i + 1].route = "useful"
                  /\ Accepted

C15_Witness ==
    /\ pc = "END"
    /\ state.documents = <<>>
    /\ Last(trace).hall = "no"
    /\ state.retry_count = 3

\* out is the subsequence of docs whose call in cs answered yes
IsYesSubsequence(out, docs, cs) ==
    LET yes == {i \in 1..Len(docs) : cs[i].res = "yes"}
    IN  /\ Len(out) = Cardinality(yes)
        /\ \A i \in yes : out[Cardinality({j \in yes : j <= i})] = docs[i]

\* C16: grade_documents issues exactly one classify call per retrieved
\* document and leaves in documents exactly those scored yes, unchanged and
\* in their order; retrieve replaces documents by the search result.
C16_FilterResult ==
    [][/\ pc = "grade_documents" =>
             /\ Len(calls') = Len(state.documents)
             /\ \A i \in 1..Len(calls') :
                    calls'[i].fn = "classify" /\ calls'[i].by = "grade_documents"
             /\ IsYesSubsequence(state'.documents, state.documents, calls')
       /\ pc = "retrieve" =>
             /\ Len(calls') = 1
             /\ calls'[1].fn = "search"
             /\ state'.documents = calls'[1].docs]_vars

C16_Witness ==
    /\ pc = "decide_to_generate"
    /\ Count("retrieve") = 2
    /\ trace[Nth("grade_documents", 1)].ndocs = 1
    /\ Len(calls) = 2
    /\ state.documents = <<"d1", "d2">>

\* the step changes no key of state outside keys and removes none
Frame(keys) ==
    /\ DOMAIN state \subseteq DOMAIN state'
    /\ \A k \in DOMAIN state' \ keys : k \in DOMAIN state /\ state'[k] = state[k]

\* C17: a not-grounded verdict leads straight to generate with the state
\* unchanged and without a search; generate changes only generation and
\* retry_count (and thoughts), transform_query only question and
\* retry_count (and thoughts).
C17_RegenerateWithoutRetrieve ==
    [][/\ (pc = Verifier /\ Running' /\ Last(trace').route = "not grounded") =>
             /\ pc' = "generate"
             /\ state' = state
             /\ \A i \in 1..Len(calls') : calls'[i].fn = "classify"
       /\ pc = "generate" => Frame({"generation", "retry_count"})
       /\ pc = "transform_query" => Frame({"question", "retry_count"})]_vars

C17_Witness ==
    /\ pc = Verifier
    /\ Count("generate") = 2
    /\ Count("retrieve") = 1
    /\ trace[Len(trace) - 1].route = "not grounded"
    /\ state.question = state.original_question

\* C18: in every run from retry_count = 0 generate executes at most 3
\* times, transform_query at most 2, retrieve and grade_documents at most 3,
\* generate and transform_query together at most 4; an accepted run has
\* executed generate at least once and has retry_count in 1..4.
C18_Budget ==
    /\ Count("generate") <= 3
    /\ Count("transform_query") <= 2
    /\ Count("retrieve") <= 3
    /\ Count("grade_documents") <= 3
    /\ Count("generate") + Count("transform_query") <= 4
    /\ Accepted =>
          /\ Count("generate") >= 1
          /\ state.retry_count \in 1..4

C18_Witness ==
    /\ pc = "END"
    /\ state.retry_count = 4
    /\ Count("generate") = 3
    /\ Count("transform_query") = 1

NotUsefulSteps ==
    {i \in StepsOf(Verifier) : trace[i].route = "not useful"}

\* C20: at most one transform_query is entered from generate; after it the
\* next FILTER decision is generate even with empty documents, and the
\* verifier after that generate accepts whatever its answers are.
C20_OneAttemptAfterVerdictRewrite ==
    /\ Cardinality(NotUsefulSteps) <= 1
    /\ \A i \in NotUsefulSteps :
          /\ Len(trace) <= i + 6
          /\ \A j \in (i + 1)..Len(trace) :
                /\ trace[j].node =
                      CASE j = i + 1 -> "transform_query"
                        [] j = i + 2 -> "retrieve"
                        [] j = i + 3 -> "grade_documents"
                        [] j = i + 4 -> "decide_to_generate"
                        [] j = i + 5 -> "generate"
                        [] j = i + 6 -> Verifier
                /\ j = i + 4 => trace[j].route = "generate"
                /\ j = i + 6 => trace[j].route = "useful"
          /\ Len(trace) = i + 6 => Accepted

C20_Witness ==
    /\ pc = "END"
    /\ NotUsefulSteps # {}
    /\ state.documents = <<>>
    /\ Last(trace).hall = "no"

\* an invocation of the graph is about to execute its first step
RunStart == pc = "retrieve" /\ trace = <<>>

\* C14: every invocation starts in retrieve with retry_count = 0 and
\* thoughts = [], also when an earlier invocation was made with the same
\* inputs dict.
C14_FreshRun ==
    RunStart => (state.retry_count = 0 /\ thoughts = <<>>)

MaxRetriesThoughts == {ThMaxRetriesRefusal, ThMaxRetriesBestEffort}

\* C19: a run accepted with retry_count <= 2 had grounding yes and relevance
\* yes on its final generation, ends its thoughts with the success entry and
\* has no 'Max retries reached' entry in thoughts; such an entry appears
\* only in runs that end with retry_count >= 3.
C19_UnforcedAcceptanceVerified ==
    pc = "END" =>
        /\ state.retry_count <= 2 =>
              /\ Len(calls) = 2
              /\ calls[1].by = "hall_chain" /\ calls[1].res = "yes"
              /\ calls[2].by = "answer_chain" /\ calls[2].res = "yes"
              /\ calls[2].q = state.original_question
              /\ Last(thoughts) = ThSuccess
              /\ CountThought(MaxRetriesThoughts) = 0
        /\ CountThought(MaxRetriesThoughts) > 0 => state.retry_count >= 3

====
